---- MODULE Spec2Model ----
(***************************************************************************)
(* A model of the SolanaBot worker (src/src/worker.ts), of the token-drop  *)
(* detector and of the worker pool (src/unnamed/part_000, src/src/bot.ts). *)
(*                                                                         *)
(* Amounts are integers in one unit; the configured start_buy is 40 or 80  *)
(* units, so that CURRENT_BUY_AMOUNT * 0.1 is exact where the model uses   *)
(* it.                                                                     *)
(* A JavaScript handler runs without interleaving up to its next await of  *)
(* a pending operation, so one action is one such section: the handler of  *)
(* a message, or the continuation of an await that has settled.            *)
(*                                                                         *)
(* Three specifications share the variables: Spec (one worker and the      *)
(* commands it receives), DetectorSpec (the log subscription) and PoolSpec *)
(* (start_workers and wait_for_workers).                                   *)
(***************************************************************************)
EXTENDS Integers, FiniteSets, Sequences, TLC

\* ------------------------------------------------------------------ bounds
\* 'buy' commands, and so control_loop invocations, of one worker
MaxLoops == 2

\* -------------------------------------------------------- program constants
\* MIN_BUY_THRESHOLD, in the model's unit
MIN_BUY_THRESHOLD == 20
\* WORKER_CONFIG.inputs.mcap_threshold
McapThreshold == 2
\* what trade.get_balance_change measures above the requested amount
Fee == 4

Loops == 1 .. MaxLoops
\* the usd_market_cap values a mint message may carry
Caps == {McapThreshold - 1, McapThreshold}

\* the inputs a worker may be configured with: with the first the buy size is
\* at MIN_BUY_THRESHOLD after one halving, with the second after two
Configs ==
    { [start_buy |-> 40, spend_limit |-> 80],
      [start_buy |-> 80, spend_limit |-> 150] }

VARIABLES
    \* ---- worker.ts
    WORKER_CONFIG,       \* workerData.inputs, an element of Configs
    worker,              \* "running" | "exited" (process.exit(0)) | "crashed"
    MINT_METADATA,       \* [tag, usd_market_cap]
    IS_DONE,
    CURRENT_SPENDINGS,
    CURRENT_BUY_AMOUNT,
    IS_SECOND_BUY,
    START_SELL,
    CANCEL_SLEEP,        \* 0: undefined; l: the cancel of loop l's latest sleep
    pc,                  \* pc[l]: the await at which control_loop invocation l is suspended
    amount,              \* amount[l]: the amount of l's buy attempt in flight
    nloops,              \* control_loop invocations so far
    decision,            \* the branch the latest cycle took (the message it pushed):
                         \* "none" | "no_mint" | "sell" | "limit" | "buy" | "buy_failed"
    sells,               \* history: calls of sell()
    mcap_seen,           \* history: some control_loop took the branch of line 83
    stop_applied,        \* history: a stop command found IS_DONE false and set it
    collect_in_sleep,    \* history: a collect command was handled during a pacing sleep
    sell_in_loop         \* history: a sell command was applied while a loop was running

wvars == <<WORKER_CONFIG, worker, MINT_METADATA, IS_DONE, CURRENT_SPENDINGS, CURRENT_BUY_AMOUNT,
           IS_SECOND_BUY, START_SELL, CANCEL_SLEEP, pc, amount, nloops, decision,
           sells, mcap_seen, stop_applied, collect_in_sleep, sell_in_loop>>

\* WORKER_CONFIG.inputs.start_buy
StartBuy == WORKER_CONFIG.start_buy
\* WORKER_CONFIG.inputs.spend_limit * LAMPORTS_PER_SOL
SpendLimit == WORKER_CONFIG.spend_limit

\* the module-level state of worker.ts
agent_state == <<MINT_METADATA, IS_DONE, CURRENT_SPENDINGS, CURRENT_BUY_AMOUNT,
                 IS_SECOND_BUY, START_SELL>>

VARIABLES
    \* ---- part_000, wait_drop_sub / wait_drop_unsub
    detector,            \* "init" | "subscribed" | "exit1"
    subscriptionID,      \* 0: undefined
    mint,                \* 0: undefined
    listening,           \* the connection still delivers log entries
    cb,                  \* cb[c]: "idle" | "fetch" | "done", the c-th log callback
    unsub_pending,       \* removeOnLogsListener requests not yet settled
    remove_calls,        \* history: removeOnLogsListener requests issued
    unsub_errors,        \* history: 'Failed to unsubscribe from logs' errors logged
    last_cb              \* history: what the latest callback did with its transaction

dvars == <<detector, subscriptionID, mint, listening, cb, unsub_pending,
           remove_calls, unsub_errors, last_cb>>

VARIABLES
    \* ---- part_000, start_workers / wait_for_workers
    pool,                \* "init" | "started" | "exit1"
    thread_cnt,          \* config.thread_cnt
    secrets,             \* common.get_keys()
    workers,             \* the WorkerPromise list
    waiter               \* "idle" | "waiting" | "finished" | "error"

pvars == <<pool, thread_cnt, secrets, workers, waiter>>

vars == <<wvars, dvars, pvars>>

\* ------------------------------------------------------------- mint metadata
\* undefined, {} and a TokenMeta; of a TokenMeta the model keeps usd_market_cap
Undefined == [tag |-> "undefined", usd_market_cap |-> 0]
EmptyObject == [tag |-> "empty", usd_market_cap |-> 0]
TokenMeta == [tag : {"meta"}, usd_market_cap : Caps]
\* the payloads of the 'mint' command
MintPayloads == TokenMeta \cup {EmptyObject}

\* HasMetadata, but without the test of Object.keys
HasMetadataOrEmpty(m) == m.tag # "undefined"

\* line 82: MINT_METADATA !== undefined && !== null && Object.keys(..).length !== 0
HasMetadata(m) == m.tag = "meta"

\* common.normal_random(mean, std): a sample one std below the mean, or above
normal_random(mean, std) == { mean - std, mean + std }

\* line 40: const std = CURRENT_BUY_AMOUNT * 0.1
Std(buy_amount) == buy_amount \div 10

\* line 41: the amount of a buy attempt
BuyAmounts(buy_amount) == normal_random(StartBuy, Std(buy_amount))

\* line 88: the pre-spend check
MayBuy(spent, buy_amount) == spent < SpendLimit /\ buy_amount > MIN_BUY_THRESHOLD

\* line 83
ThresholdReached(m) == McapThreshold <= m.usd_market_cap

WorkerInit ==
    /\ WORKER_CONFIG \in Configs
    /\ worker = "running"
    /\ MINT_METADATA = Undefined
    /\ IS_DONE = FALSE
    /\ CURRENT_SPENDINGS = 0
    /\ CURRENT_BUY_AMOUNT = 0
    /\ IS_SECOND_BUY = FALSE
    /\ START_SELL = FALSE
    /\ CANCEL_SLEEP = 0
    /\ pc = [l \in Loops |-> "idle"]
    /\ amount = [l \in Loops |-> 0]
    /\ nloops = 0
    /\ decision = "none"
    /\ sells = 0
    /\ mcap_seen = FALSE
    /\ stop_applied = FALSE
    /\ collect_in_sleep = FALSE
    /\ sell_in_loop = FALSE

\* ------------------------------------------------------------ control_loop
\* The operators of this section give worker', START_SELL', CANCEL_SLEEP',
\* pc', amount', sells' (and Cycle decision'); the action that uses one gives
\* the other variables.

\* the process ends and all its loops with it
Exit(status) ==
    /\ worker' = status
    /\ pc' = [l \in Loops |-> "idle"]
    /\ amount' = [l \in Loops |-> 0]
    /\ UNCHANGED CANCEL_SLEEP

\* lines 109-110 and 130-131: control_loop resolves, the handler of the buy
\* command posts 'Finished' and calls process.exit(0)
Finish(l) == Exit("exited")

\* lines 60-63: sell() up to its first await; without a mint the expression
\* MINT_METADATA.mint throws inside the try and sell() returns
sell(l) ==
    /\ sells' = sells + 1
    /\ IF HasMetadata(MINT_METADATA)
       THEN /\ pc' = [pc EXCEPT ![l] = "get_token_balance"]
            /\ amount' = [amount EXCEPT ![l] = 0]
            /\ UNCHANGED <<worker, CANCEL_SLEEP>>
       ELSE Finish(l)

\* lines 107-110, with start_sell the value of START_SELL at line 107
AfterLoop(l, start_sell) ==
    /\ START_SELL' = start_sell
    /\ IF start_sell THEN sell(l) ELSE Finish(l) /\ UNCHANGED sells

\* lines 101-103: the pacing sleep
Sleep(l) ==
    /\ pc' = [pc EXCEPT ![l] = "sleep"]
    /\ amount' = [amount EXCEPT ![l] = 0]
    /\ CANCEL_SLEEP' = l
    /\ UNCHANGED <<worker, START_SELL, sells>>

\* lines 97-106 and back to the loop test of line 81, after the cycle's decision
Pace(l, done) ==
    IF ~done THEN Sleep(l) ELSE AfterLoop(l, START_SELL)

\* lines 38-43: buy() up to the await of trade.buy_token
buy(l, buy_amount) ==
    \E a \in BuyAmounts(buy_amount) :
        /\ pc' = [pc EXCEPT ![l] = "buy_token"]
        /\ amount' = [amount EXCEPT ![l] = a]
        /\ UNCHANGED <<worker, START_SELL, CANCEL_SLEEP, sells>>

\* lines 81-83: the loop is entered and the threshold branch is taken
Observes(done) ==
    ~done /\ HasMetadata(MINT_METADATA) /\ ThresholdReached(MINT_METADATA)

\* Cycle, but with a reached spend limit treated like a reached threshold
CycleSellsAtLimit(l, done, buy_amount) ==
    IF done
    THEN AfterLoop(l, START_SELL) /\ UNCHANGED decision
    ELSE IF HasMetadata(MINT_METADATA)
    THEN IF ThresholdReached(MINT_METADATA) \/ CURRENT_SPENDINGS >= SpendLimit
         THEN AfterLoop(l, TRUE) /\ decision' = "sell"
         ELSE IF MayBuy(CURRENT_SPENDINGS, buy_amount)
              THEN buy(l, buy_amount) /\ decision' = "buy"
              ELSE Sleep(l) /\ decision' = "limit"
    ELSE Sleep(l) /\ decision' = "no_mint"

\* lines 81-108 from the loop test, with done and buy_amount the values of
\* IS_DONE and CURRENT_BUY_AMOUNT at that moment
Cycle(l, done, buy_amount) ==
    IF done
    THEN AfterLoop(l, START_SELL) /\ UNCHANGED decision
    ELSE IF HasMetadata(MINT_METADATA)
    THEN IF ThresholdReached(MINT_METADATA)
         THEN AfterLoop(l, TRUE) /\ decision' = "sell"
         ELSE IF MayBuy(CURRENT_SPENDINGS, buy_amount)
              THEN buy(l, buy_amount) /\ decision' = "buy"
              ELSE Sleep(l) /\ decision' = "limit"
    ELSE Sleep(l) /\ decision' = "no_mint"

\* ------------------------------------------------------- command handlers
Running == worker = "running"

\* some control_loop invocation has not resolved yet
LoopRunning == \E l \in Loops : pc[l] # "idle"

\* lines 127-131
RecvBuy ==
    /\ Running
    /\ nloops < MaxLoops
    /\ nloops' = nloops + 1
    /\ CURRENT_BUY_AMOUNT' = StartBuy
    /\ Cycle(nloops + 1, IS_DONE, StartBuy)
    /\ mcap_seen' = (mcap_seen \/ Observes(IS_DONE))
    /\ UNCHANGED <<MINT_METADATA, IS_DONE, CURRENT_SPENDINGS, IS_SECOND_BUY,
                   stop_applied, collect_in_sleep>>
    /\ UNCHANGED <<WORKER_CONFIG, sell_in_loop, dvars, pvars>>

\* lines 133-139
RecvSell ==
    /\ Running
    /\ IF ~START_SELL
       THEN /\ IS_DONE' = TRUE
            /\ START_SELL' = TRUE
            /\ sell_in_loop' = (sell_in_loop \/ LoopRunning)
       ELSE UNCHANGED <<IS_DONE, START_SELL, sell_in_loop>>
    /\ UNCHANGED <<worker, MINT_METADATA, CURRENT_SPENDINGS, CURRENT_BUY_AMOUNT,
                   IS_SECOND_BUY, CANCEL_SLEEP, pc, amount, nloops, decision, sells,
                   mcap_seen, stop_applied, collect_in_sleep>>
    /\ UNCHANGED <<WORKER_CONFIG, dvars, pvars>>

\* lines 144 and 151, after IS_DONE = true: CANCEL_SLEEP().  Undefined, the
\* call throws in the async handler: an unhandled rejection, on which the
\* worker thread ends with an error.  A pending sleep resolves and its loop
\* goes on from line 105 before any other event is handled; the cancel of an
\* elapsed sleep does nothing.
CallCancelSleep ==
    IF CANCEL_SLEEP = 0
    THEN Exit("crashed") /\ UNCHANGED <<START_SELL, sells, decision>>
    ELSE IF pc[CANCEL_SLEEP] = "sleep"
    THEN Cycle(CANCEL_SLEEP, TRUE, CURRENT_BUY_AMOUNT)
    ELSE UNCHANGED <<worker, START_SELL, CANCEL_SLEEP, pc, amount, sells, decision>>

Sleeping == \E l \in Loops : pc[l] = "sleep"

\* lines 140-146
RecvCollect ==
    /\ Running
    /\ IF ~IS_DONE
       THEN IS_DONE' = TRUE /\ CallCancelSleep
       ELSE UNCHANGED <<IS_DONE, worker, START_SELL, CANCEL_SLEEP, pc, amount,
                        sells, decision>>
    /\ collect_in_sleep' = (collect_in_sleep \/ Sleeping)
    /\ UNCHANGED <<MINT_METADATA, CURRENT_SPENDINGS, CURRENT_BUY_AMOUNT,
                   IS_SECOND_BUY, nloops, mcap_seen, stop_applied>>
    /\ UNCHANGED <<WORKER_CONFIG, sell_in_loop, dvars, pvars>>

\* lines 147-153
RecvStop ==
    /\ Running
    /\ IF ~IS_DONE
       THEN IS_DONE' = TRUE /\ stop_applied' = TRUE /\ CallCancelSleep
       ELSE UNCHANGED <<IS_DONE, stop_applied, worker, START_SELL, CANCEL_SLEEP,
                        pc, amount, sells, decision>>
    /\ UNCHANGED <<MINT_METADATA, CURRENT_SPENDINGS, CURRENT_BUY_AMOUNT,
                   IS_SECOND_BUY, nloops, mcap_seen, collect_in_sleep>>
    /\ UNCHANGED <<WORKER_CONFIG, sell_in_loop, dvars, pvars>>

\* lines 154-156
RecvMint(data) ==
    /\ Running
    /\ MINT_METADATA' = data
    /\ UNCHANGED <<worker, IS_DONE, CURRENT_SPENDINGS, CURRENT_BUY_AMOUNT,
                   IS_SECOND_BUY, START_SELL, CANCEL_SLEEP, pc, amount, nloops,
                   decision, sells, mcap_seen, stop_applied, collect_in_sleep>>
    /\ UNCHANGED <<WORKER_CONFIG, sell_in_loop, dvars, pvars>>

\* ------------------------------------------------- the awaits of a loop end
\* lines 28 and 103-106: the timer of loop l's sleep fires
TimerFires(l) ==
    /\ Running
    /\ pc[l] = "sleep"
    /\ Cycle(l, IS_DONE, CURRENT_BUY_AMOUNT)
    /\ mcap_seen' = (mcap_seen \/ Observes(IS_DONE))
    /\ UNCHANGED <<MINT_METADATA, IS_DONE, CURRENT_SPENDINGS, CURRENT_BUY_AMOUNT,
                   IS_SECOND_BUY, nloops, stop_applied, collect_in_sleep>>
    /\ UNCHANGED <<WORKER_CONFIG, sell_in_loop, dvars, pvars>>

\* lines 43-44 and 55-57: trade.buy_token settles; when it throws, the catch
\* of line 55 pushes 'Error buying the token ... Will sleep and retry'
BuyTokenDone(l, ok) ==
    /\ Running
    /\ pc[l] = "buy_token"
    /\ IF ok
       THEN /\ pc' = [pc EXCEPT ![l] = "get_balance_change"]
            /\ UNCHANGED <<worker, START_SELL, CANCEL_SLEEP, amount, sells, decision>>
       ELSE Pace(l, IS_DONE) /\ decision' = "buy_failed"
    /\ UNCHANGED <<MINT_METADATA, IS_DONE, CURRENT_SPENDINGS, CURRENT_BUY_AMOUNT,
                   IS_SECOND_BUY, nloops, mcap_seen, stop_applied,
                   collect_in_sleep>>
    /\ UNCHANGED <<WORKER_CONFIG, sell_in_loop, dvars, pvars>>

\* BalanceChange, but with nothing counted when the measurement fails
BalanceChangeDropped(requested, measured_ok) ==
    IF measured_ok THEN requested + Fee ELSE 0

\* lines 44-50: the balance change of a buy, the requested amount when
\* trade.get_balance_change throws
BalanceChange(requested, measured_ok) ==
    IF measured_ok THEN requested + Fee ELSE requested

\* line 52
NextBuyAmount(buy_amount, second) ==
    IF second THEN buy_amount \div 2 ELSE buy_amount

\* lines 46-54: trade.get_balance_change settles
BalanceChangeDone(l, measured_ok) ==
    /\ Running
    /\ pc[l] = "get_balance_change"
    /\ CURRENT_SPENDINGS' = CURRENT_SPENDINGS + BalanceChange(amount[l], measured_ok)
    /\ CURRENT_BUY_AMOUNT' = NextBuyAmount(CURRENT_BUY_AMOUNT, IS_SECOND_BUY)
    /\ IS_SECOND_BUY' = ~IS_SECOND_BUY
    /\ Pace(l, IS_DONE)
    /\ UNCHANGED <<MINT_METADATA, IS_DONE, nloops, decision, mcap_seen, stop_applied,
                   collect_in_sleep>>
    /\ UNCHANGED <<WORKER_CONFIG, sell_in_loop, dvars, pvars>>

\* lines 63-73: trade.get_token_balance settles: it throws, or gives no
\* tokens, or tokens; pool_null is MINT_METADATA.raydium_pool === null (line
\* 69), a field the model does not keep
GetTokenBalanceDone(l, outcome, pool_null) ==
    /\ Running
    /\ pc[l] = "get_token_balance"
    /\ IF outcome = "tokens" /\ HasMetadata(MINT_METADATA) /\ pool_null
       THEN /\ pc' = [pc EXCEPT ![l] = "sell_token"]
            /\ UNCHANGED <<worker, CANCEL_SLEEP, amount>>
       ELSE Finish(l)
    /\ UNCHANGED <<MINT_METADATA, IS_DONE, CURRENT_SPENDINGS, CURRENT_BUY_AMOUNT,
                   IS_SECOND_BUY, START_SELL, nloops, decision, sells, mcap_seen,
                   stop_applied, collect_in_sleep>>
    /\ UNCHANGED <<WORKER_CONFIG, sell_in_loop, dvars, pvars>>

\* lines 70-77: trade.sell_token settles, either way
SellTokenDone(l) ==
    /\ Running
    /\ pc[l] = "sell_token"
    /\ Finish(l)
    /\ UNCHANGED <<MINT_METADATA, IS_DONE, CURRENT_SPENDINGS, CURRENT_BUY_AMOUNT,
                   IS_SECOND_BUY, START_SELL, nloops, decision, sells, mcap_seen,
                   stop_applied, collect_in_sleep>>
    /\ UNCHANGED <<WORKER_CONFIG, sell_in_loop, dvars, pvars>>

WorkerNext ==
    \/ RecvBuy
    \/ RecvSell
    \/ RecvCollect
    \/ RecvStop
    \/ \E data \in MintPayloads : RecvMint(data)
    \/ \E l \in Loops : TimerFires(l)
    \/ \E l \in Loops, ok \in BOOLEAN : BuyTokenDone(l, ok)
    \/ \E l \in Loops, measured_ok \in BOOLEAN : BalanceChangeDone(l, measured_ok)
    \/ \E l \in Loops, outcome \in {"error", "none", "tokens"}, pool_null \in BOOLEAN :
           GetTokenBalanceDone(l, outcome, pool_null)
    \/ \E l \in Loops : SellTokenDone(l)

\* ------------------------------------------------------------ the detector
\* log callbacks of one subscription
MaxCallbacks == 3

Callbacks == 1 .. MaxCallbacks
\* account keys; 0 stands for undefined (and for an empty mint string)
PubKeys == {1, 2}

\* the configured token_name and token_ticker, and what creators may use
token_name == "Foo"
token_ticker == <<"F", "O", "O">>
Names == {"Foo", "Bar"}
Symbols == {<<"F", "O", "O">>, <<"$", "F", "O", "O">>, <<"F", "O">>, <<"B", "A", "R">>}

\* String.prototype.includes
includes(str, part) ==
    \E i \in 1 .. (Len(str) - Len(part) + 1) : SubSeq(str, i, i + Len(part) - 1) = part

\* the inner instructions a transaction may hold: of another program, of the
\* metadata program with nothing decoded, of the metadata program and decoded
OtherInstr ==
    [program |-> "other", bytes_read |-> 0, name |-> "Bar",
     symbol |-> <<"B", "A", "R">>, account1 |-> 1]
EmptyInstr ==
    [program |-> "metaplex", bytes_read |-> 0, name |-> "Bar",
     symbol |-> <<"B", "A", "R">>, account1 |-> 1]
Instrs ==
    {OtherInstr, EmptyInstr} \cup
    [program : {"metaplex"}, bytes_read : {1}, name : Names, symbol : Symbols,
     account1 : PubKeys]

\* getParsedTransaction gave nothing usable (line 95, first three tests)
NullTx ==
    [ok |-> FALSE, has_ptb |-> FALSE, ptb |-> <<>>, has_inner |-> FALSE,
     inner |-> <<>>, signers |-> {}]
\* the transactions getParsedTransaction may return: postTokenBalances absent,
\* empty, or one record whose mint is empty (0) or a key; innerInstructions
\* absent or a list of at most one instruction
Txs ==
    {NullTx} \cup
    [ok : {TRUE}, has_ptb : {TRUE}, ptb : {<<>>} \cup {<<m>> : m \in {0} \cup PubKeys},
     has_inner : {TRUE}, inner : {<<>>} \cup {<<i>> : i \in Instrs},
     signers : SUBSET PubKeys] \cup
    [ok : {TRUE}, has_ptb : {FALSE}, ptb : {<<>>},
     has_inner : {TRUE}, inner : {<<i>> : i \in Instrs},
     signers : SUBSET PubKeys] \cup
    [ok : {TRUE}, has_ptb : {TRUE}, ptb : {<<m>> : m \in {0} \cup PubKeys},
     has_inner : {FALSE}, inner : {<<>>},
     signers : SUBSET PubKeys]

\* lines 102-107: the instruction is a creation of the configured token
InstrMatches(instr) ==
    /\ instr.program = "metaplex"
    /\ instr.bytes_read > 0
    /\ instr.name = token_name
    /\ includes(instr.symbol, token_ticker)

\* lines 100-115: the loop over the inner instructions from the i-th on, with
\* m the value of mint; postTokenBalances[0].mint throws on an empty list
RECURSIVE ScanFrom(_, _, _)
ScanFrom(tx, i, m) ==
    IF i > Len(tx.inner)
    THEN [mint |-> m, threw |-> FALSE]
    ELSE IF ~InstrMatches(tx.inner[i])
    THEN ScanFrom(tx, i + 1, m)
    ELSE IF tx.ptb = <<>>
    THEN [mint |-> m, threw |-> TRUE]
    ELSE IF tx.ptb[1] # 0
    THEN ScanFrom(tx, i + 1, tx.ptb[1])
    ELSE ScanFrom(tx, i + 1, tx.inner[i].account1)

\* line 95 and line 98: the entry is skipped
Skipped(tx) == ~tx.ok \/ ~tx.has_ptb \/ ~tx.has_inner

\* lines 116-117
SignerCheck(tx, m) == m # 0 /\ m \in tx.signers

\* the transaction holds a matching creation instruction
TxMatches(tx) ==
    tx.ok /\ tx.has_inner /\ \E i \in 1 .. Len(tx.inner) : InstrMatches(tx.inner[i])

\* line 111: partial.accounts[1] of the last matching instruction, 0 without one
MatchedAccount(tx) ==
    IF TxMatches(tx)
    THEN LET i == CHOOSE i \in 1 .. Len(tx.inner) :
                      /\ InstrMatches(tx.inner[i])
                      /\ \A j \in (i + 1) .. Len(tx.inner) : ~InstrMatches(tx.inner[j])
         IN  tx.inner[i].account1
    ELSE 0

\* what a callback did: its transaction matched, the identifier it took from
\* the transaction, that identifier signed, the signer check passed; the
\* transaction's postTokenBalances and matching account; and what
\* wait_drop_unsub did: "none" (not called) | "requested" | "noop"
NoCallback ==
    [matched |-> FALSE, taken |-> 0, signed |-> FALSE, resolved |-> FALSE,
     ptb |-> <<>>, account1 |-> 0, unsub |-> "none"]

DetectorInit ==
    /\ detector = "init"
    /\ subscriptionID = 0
    /\ mint = 0
    /\ listening = FALSE
    /\ cb = [c \in Callbacks |-> "idle"]
    /\ unsub_pending = 0
    /\ remove_calls = 0
    /\ unsub_errors = 0
    /\ last_cb = NoCallback

\* lines 88-90 and 124-127: connection.onLogs gives an id, or the process exits
wait_drop_sub(ok) ==
    /\ detector = "init"
    /\ IF ok
       THEN detector' = "subscribed" /\ subscriptionID' = 1 /\ listening' = TRUE
       ELSE detector' = "exit1" /\ UNCHANGED <<subscriptionID, listening>>
    /\ UNCHANGED <<mint, cb, unsub_pending, remove_calls, unsub_errors, last_cb>>
    /\ UNCHANGED <<wvars, pvars>>

\* lines 90-94: a log entry starts the c-th callback, which returns at once or
\* awaits getParsedTransaction
LogEntry(c, err, mint_to) ==
    /\ detector = "subscribed"
    /\ listening
    /\ cb[c] = "idle"
    /\ \A d \in Callbacks : d < c => cb[d] # "idle"
    /\ cb' = [cb EXCEPT ![c] = IF ~err /\ mint_to THEN "fetch" ELSE "done"]
    /\ UNCHANGED <<detector, subscriptionID, mint, listening, unsub_pending,
                   remove_calls, unsub_errors, last_cb>>
    /\ UNCHANGED <<wvars, pvars>>

\* wait_drop_unsub, but without the test of subscriptionID
UnguardedUnsub ==
    unsub_pending' = unsub_pending + 1 /\ remove_calls' = remove_calls + 1

\* lines 130-135: wait_drop_unsub up to the request; its promise settles later
wait_drop_unsub ==
    IF subscriptionID # 0
    THEN unsub_pending' = unsub_pending + 1 /\ remove_calls' = remove_calls + 1
    ELSE UNCHANGED <<unsub_pending, remove_calls>>

\* lines 94-121: getParsedTransaction settles for the c-th callback
FetchDone(c, tx) ==
    /\ detector = "subscribed"
    /\ cb[c] = "fetch"
    /\ cb' = [cb EXCEPT ![c] = "done"]
    /\ IF Skipped(tx)
       THEN /\ UNCHANGED <<mint, unsub_pending, remove_calls>>
            /\ last_cb' = [NoCallback EXCEPT !.matched = TxMatches(tx),
                                             !.ptb = tx.ptb,
                                             !.account1 = MatchedAccount(tx)]
       ELSE LET r == ScanFrom(tx, 1, mint)
                resolved == ~r.threw /\ SignerCheck(tx, r.mint)
                taken == ScanFrom(tx, 1, 0).mint
            IN  /\ mint' = r.mint
                /\ IF resolved
                   THEN wait_drop_unsub
                   ELSE UNCHANGED <<unsub_pending, remove_calls>>
                /\ last_cb' = [matched |-> TxMatches(tx), taken |-> taken,
                               signed |-> SignerCheck(tx, taken),
                               resolved |-> resolved,
                               ptb |-> tx.ptb,
                               account1 |-> MatchedAccount(tx),
                               unsub |-> IF ~resolved THEN "none"
                                         ELSE IF subscriptionID # 0 THEN "requested"
                                         ELSE "noop"]
    /\ UNCHANGED <<detector, subscriptionID, listening, unsub_errors>>
    /\ UNCHANGED <<wvars, pvars>>

\* lines 132-134: a removeOnLogsListener request settles
UnsubSettles(ok) ==
    /\ detector = "subscribed"
    /\ unsub_pending > 0
    /\ unsub_pending' = unsub_pending - 1
    /\ IF ok
       THEN subscriptionID' = 0 /\ listening' = FALSE /\ UNCHANGED unsub_errors
       ELSE unsub_errors' = unsub_errors + 1 /\ UNCHANGED <<subscriptionID, listening>>
    /\ UNCHANGED <<detector, mint, cb, remove_calls, last_cb>>
    /\ UNCHANGED <<wvars, pvars>>

DetectorNext ==
    \/ \E ok \in BOOLEAN : wait_drop_sub(ok)
    \/ \E c \in Callbacks, err \in BOOLEAN, mint_to \in BOOLEAN : LogEntry(c, err, mint_to)
    \/ \E c \in Callbacks, tx \in Txs : FetchDone(c, tx)
    \/ \E ok \in BOOLEAN : UnsubSettles(ok)

\* ---------------------------------------------------------- the worker pool
\* the largest config.thread_cnt and the most key files
MaxThreads == 3

\* the i-th secret of the keys directory
KeyOf(i) == 10 + i
\* secrets[i] past the end of the list
NoSecret == 0

PoolInit ==
    /\ pool = "init"
    /\ thread_cnt = 0
    /\ secrets = <<>>
    /\ workers = <<>>
    /\ waiter = "idle"

\* lines 145-162: the worker of iteration i - 1 of the loop
NewWorker(keys, i) ==
    [secret |-> IF i <= Len(keys) THEN keys[i] ELSE NoSecret,
     id |-> i, state |-> "running", promise |-> "pending"]

\* lines 138-163
start_workers(cnt, keys) ==
    /\ pool = "init"
    /\ thread_cnt' = cnt
    /\ secrets' = keys
    /\ IF Len(keys) = 0
       THEN pool' = "exit1" /\ workers' = <<>>
       ELSE pool' = "started" /\ workers' = [i \in 1 .. cnt |-> NewWorker(keys, i)]
    /\ UNCHANGED waiter
    /\ UNCHANGED <<wvars, dvars>>

\* line 168: Promise.all over the promises ps, as soon as it is decided
PromiseAll(ps) ==
    IF \E i \in 1 .. Len(ps) : ps[i].promise = "rejected" THEN "error"
    ELSE IF \A i \in 1 .. Len(ps) : ps[i].promise = "resolved" THEN "finished"
    ELSE "waiting"

\* lines 165-174
wait_for_workers ==
    /\ pool = "started"
    /\ waiter = "idle"
    /\ waiter' = PromiseAll(workers)
    /\ UNCHANGED <<pool, thread_cnt, secrets, workers>>
    /\ UNCHANGED <<wvars, dvars>>

\* lines 154-158: the i-th worker emits 'error' or 'exit'
Settle(outcome) == IF outcome = "exit0" THEN "resolved" ELSE "rejected"

WorkerEnds(i, outcome) ==
    /\ pool = "started"
    /\ i \in 1 .. Len(workers)
    /\ workers[i].state = "running"
    /\ workers' = [workers EXCEPT ![i].state = "terminated",
                                  ![i].promise = Settle(outcome)]
    /\ waiter' = IF waiter = "waiting" THEN PromiseAll(workers') ELSE waiter
    /\ UNCHANGED <<pool, thread_cnt, secrets>>
    /\ UNCHANGED <<wvars, dvars>>

PoolNext ==
    \/ \E n \in 0 .. MaxThreads, cnt \in 1 .. MaxThreads :
           start_workers(cnt, [i \in 1 .. n |-> KeyOf(i)])
    \/ wait_for_workers
    \/ \E i \in 1 .. MaxThreads, outcome \in {"exit0", "exit1", "error"} :
           WorkerEnds(i, outcome)

Init == WorkerInit /\ DetectorInit /\ PoolInit

\* one worker and the commands it receives
Spec == Init /\ [][WorkerNext]_vars

\* timers fire and the calls of the trade executor settle
FairSpec ==
    /\ Spec
    /\ \A l \in Loops :
          /\ WF_vars(TimerFires(l))
          /\ WF_vars(\E ok \in BOOLEAN : BuyTokenDone(l, ok))
          /\ WF_vars(\E measured_ok \in BOOLEAN : BalanceChangeDone(l, measured_ok))
          /\ WF_vars(\E outcome \in {"error", "none", "tokens"}, pool_null \in BOOLEAN :
                         GetTokenBalanceDone(l, outcome, pool_null))
          /\ WF_vars(SellTokenDone(l))

\* the subscription to the logs of the creation program
DetectorSpec == Init /\ [][DetectorNext]_vars

\* start_workers, the workers' ends and wait_for_workers
PoolSpec == Init /\ [][PoolNext]_vars

\* ------------------------------------------------------------------ claims
\* a buy attempt starts in this step
StartsBuy == \E l \in Loops : pc[l] # "buy_token" /\ pc'[l] = "buy_token"

\* the most one buy attempt adds to CURRENT_SPENDINGS
MaxAttempt == StartBuy + Std(StartBuy) + Fee

\* C1: under any sequence of commands, mint updates and buy outcomes,
\* spent_so_far never exceeds the spend limit by more than the amount of one
\* buy attempt (an attempt starts only while spent_so_far < spend_limit).
C1_SpentWithinOneAttempt ==
    CURRENT_SPENDINGS < SpendLimit + MaxAttempt

\* C2: once the loop has started, current_buy_size never increases, and it
\* changes only when a successful buy completes with the alternating flag set,
\* and then to its half.
C2_BuySizeOnlyHalves ==
    [][nloops >= 1 =>
          \/ CURRENT_BUY_AMOUNT' = CURRENT_BUY_AMOUNT
          \/ /\ \E l \in Loops : pc[l] = "get_balance_change" /\ pc'[l] # "get_balance_change"
             /\ IS_SECOND_BUY
             /\ 2 * CURRENT_BUY_AMOUNT' = CURRENT_BUY_AMOUNT]_vars

\* C3: once a control loop has observed current_valuation >= mcap_threshold
\* (which starts the sell), the agent starts no buy attempt and no further
\* sell, whatever commands or mint updates arrive.
C3_NothingAfterThreshold ==
    [][mcap_seen => ~StartsBuy /\ sells' = sells]_vars

\* C4: the detector resolves while processing a transaction only if that
\* transaction holds a creation instruction matching the target name and
\* ticker and the identifier taken from that transaction is among its signers.
C4_ResolvesOnlyOnOwnMatch ==
    last_cb.resolved => last_cb.matched /\ last_cb.signed

\* C5: a collect command processed during the pacing sleep ends the sleep at
\* once: after it no loop is left sleeping, and no buy attempt starts.
C5_CollectEndsSleep ==
    collect_in_sleep => ~Sleeping

\* C5, the part that holds: after such a collect no buy attempt starts.
C5_NoBuyAfterCollect ==
    [][collect_in_sleep => ~StartsBuy]_vars

\* C6: once stop has been applied, a command delivered afterwards (buy, sell,
\* collect, stop) changes no agent state and starts no buy or sell attempt.
C6_CommandsIgnoredAfterStop ==
    [][stop_applied /\ (RecvBuy \/ RecvSell \/ RecvCollect \/ RecvStop) =>
          /\ UNCHANGED agent_state
          /\ ~StartsBuy
          /\ sells' = sells]_vars

\* the credentials of the key list
Credentials == { secrets[i] : i \in 1 .. Len(secrets) }
Min(a, b) == IF a < b THEN a ELSE b

\* C7: start_workers fails (NoCredentials) on an empty credential list, and
\* otherwise creates exactly min(thread_cnt, number of credentials) agents,
\* each with a distinct existing credential, with identifiers 1, 2, ..., n.
C7_SpawnPoolContract ==
    pool # "init" =>
        IF Len(secrets) = 0
        THEN pool = "exit1" /\ workers = <<>>
        ELSE /\ pool = "started"
             /\ Len(workers) = Min(thread_cnt, Len(secrets))
             /\ \A i \in 1 .. Len(workers) :
                    /\ workers[i].id = i
                    /\ workers[i].secret \in Credentials
                    /\ \A j \in 1 .. Len(workers) :
                           workers[i].secret = workers[j].secret => i = j

\* C8: wait_for_workers returns only after every agent has terminated, also
\* when one agent ends abnormally while its siblings still run.
C8_ReturnsAfterAllTerminated ==
    waiter \in {"finished", "error"} =>
        \A i \in 1 .. Len(workers) : workers[i].state = "terminated"

\* an agent with a mint whose loop runs and that no command has ended
Active == Running /\ nloops >= 1 /\ HasMetadata(MINT_METADATA) /\ ~IS_DONE

\* C9: an Active agent whose spent_so_far has reached the spend limit
\* eventually sells without any further command.
C9_SpendLimitLeadsToSell ==
    (Active /\ CURRENT_SPENDINGS >= SpendLimit) ~> (sells > 0 \/ IS_DONE \/ ~Running)

\* C9, amended: while spent_so_far is at or above the spend limit, and no
\* sell was triggered and the valuation is below the threshold, no step of
\* the agent starts a sell or a buy attempt: the agent only paces.
C9_SpendLimitOnlyPaces ==
    [][/\ Active
       /\ CURRENT_SPENDINGS >= SpendLimit
       /\ ~START_SELL
       /\ ~ThresholdReached(MINT_METADATA)
       => sells' = sells /\ ~StartsBuy]_vars

\* C9 witness: a cycle found the spend limit reached and went to its sleep
C9_Witness ==
    /\ Active
    /\ CURRENT_SPENDINGS >= SpendLimit
    /\ decision = "limit"
    /\ Sleeping
    /\ sells = 0

\* C10: once the loop has started and current_buy_size is at or below the
\* minimum buy threshold, no buy attempt is started again.
C10_NoBuyBelowThreshold ==
    [][nloops >= 1 /\ CURRENT_BUY_AMOUNT <= MIN_BUY_THRESHOLD => ~StartsBuy]_vars

\* C11: a buy attempt that fails in the trade executor leaves spent_so_far,
\* current_buy_size and the alternating flag unchanged and its loop goes on
\* to the pacing sleep (unless the agent was ended meanwhile); a buy that
\* succeeds but whose balance measurement fails adds the requested amount to
\* spent_so_far and flips the flag.
C11_FailedBuyFrame ==
    [][\A l \in Loops :
          /\ BuyTokenDone(l, FALSE) =>
                (/\ UNCHANGED <<CURRENT_SPENDINGS, CURRENT_BUY_AMOUNT, IS_SECOND_BUY>>
                 /\ (~IS_DONE => pc'[l] = "sleep" /\ worker' = "running"))
          /\ BalanceChangeDone(l, FALSE) =>
                (/\ CURRENT_SPENDINGS' = CURRENT_SPENDINGS + amount[l]
                 /\ IS_SECOND_BUY' = ~IS_SECOND_BUY)]_vars

\* C11 witness: the first buy succeeded unmeasured (the lower amount, without
\* the fee, is all that was spent), the next attempt failed and the loop sleeps
C11_Witness ==
    /\ Running
    /\ nloops = 1
    /\ decision = "buy_failed"
    /\ pc[1] = "sleep"
    /\ IS_SECOND_BUY
    /\ CURRENT_SPENDINGS = StartBuy - Std(StartBuy)

\* C12: after a sell attempt has been made, the agent starts no second sell
\* and no buy, whatever commands arrive.
C12_AtMostOneSell ==
    [][sells >= 1 => sells' = sells /\ ~StartsBuy]_vars

\* the loops that are in a buy attempt, a sell attempt or a pacing sleep
InProgress == { l \in Loops : pc[l] # "idle" }

\* C13: at most one of buy attempt, sell attempt and pacing sleep is in
\* progress in an agent at any time.
C13_SingleActivity ==
    Cardinality(InProgress) <= 1

\* C14: a collect or stop command received during a pending pacing sleep
\* cancels the sleep at once, also after a sell command received during the
\* same sleep; the agent then sells right away if a sell was triggered and
\* exits without selling otherwise.
C14_CancelledAtOnce ==
    [][(RecvCollect \/ RecvStop) /\ Sleeping =>
          /\ \A l \in Loops : pc'[l] # "sleep"
          /\ IF START_SELL
             THEN sells' = sells + 1
             ELSE sells' = sells /\ worker' = "exited"]_vars

\* C15: after a sell command applied while a loop was running, the agent
\* makes no more than one sell attempt.
C15_OneSellAfterSellCommand ==
    sell_in_loop => sells <= 1

\* C16: while the agent has no metadata (none received, or an empty one) no
\* buy attempt starts; a cycle of a loop then only pushes the diagnostic and
\* goes to its pacing sleep, and the worker keeps running.
C16_NoBuyWithoutMetadata ==
    [][(MINT_METADATA \in {Undefined, EmptyObject}) =>
          /\ ~StartsBuy
          /\ ((RecvBuy \/ \E l \in Loops : TimerFires(l)) /\ ~IS_DONE) =>
                (/\ decision' = "no_mint"
                 /\ (\E l \in Loops : pc'[l] = "sleep")
                 /\ worker' = "running")]_vars

\* C16 witness: an empty metadata was received and the cycle only paced
C16_Witness ==
    /\ Running
    /\ MINT_METADATA = EmptyObject
    /\ decision = "no_mint"
    /\ Sleeping
    /\ CURRENT_SPENDINGS = 0

\* C20: the amount of a buy attempt is drawn around the current buy size at
\* that moment, with a spread of 10% of it.
C20_AmountCentredOnCurrentSize ==
    [][\A l \in Loops :
          pc[l] # "buy_token" /\ pc'[l] = "buy_token" =>
              amount'[l] \in normal_random(CURRENT_BUY_AMOUNT',
                                           Std(CURRENT_BUY_AMOUNT'))]_vars

\* C17: for a transaction with a matching creation instruction the candidate
\* identifier is the mint of the post-transaction token-balance record when
\* there is one, and otherwise (record absent, list empty) the account at
\* index 1 of the matching instruction.
C17_CandidatePrecedence ==
    last_cb.matched =>
        last_cb.taken = IF last_cb.ptb # <<>> /\ last_cb.ptb[1] # 0
                        THEN last_cb.ptb[1]
                        ELSE last_cb.account1

\* C18: once the detector has confirmed an identifier (it has asked to
\* unsubscribe), no log entry processed afterwards changes the identifier.
C18_IdentifierWrittenOnce ==
    [][remove_calls > 0 => mint' = mint]_vars

\* C19: wait_drop_unsub on an unsubscribed detector issues no request and
\* changes nothing; a failed unsubscribe request is only logged: the
\* detector stays subscribed and keeps its subscriptionID.
C19_UnsubscribeIdempotent ==
    [][detector = "subscribed" =>
          /\ subscriptionID = 0 =>
                (/\ remove_calls' = remove_calls
                 /\ unsub_pending' <= unsub_pending
                 /\ subscriptionID' = 0)
          /\ unsub_errors' # unsub_errors =>
                (/\ detector' = "subscribed"
                 /\ subscriptionID' = subscriptionID
                 /\ listening' = listening)]_vars

\* C19 witness: an unsubscribe request failed, a later one succeeded, and a
\* callback that passed the signer check afterwards found nothing to do
C19_Witness ==
    /\ detector = "subscribed"
    /\ unsub_errors > 0
    /\ subscriptionID = 0
    /\ last_cb.unsub = "noop"

\* C21: a collect or stop command delivered before the agent has started any
\* pacing sleep (before its buy command, or during the first cycle's buy
\* attempt) raises no error: the worker does not end abnormally.
C21_NoErrorBeforeFirstSleep ==
    worker # "crashed"

\* C22: for one subscription removeOnLogsListener is requested at most once,
\* also when two overlapped callbacks both pass the signer check before the
\* first request has completed.
C22_UnsubscribeRequestedOnce ==
    remove_calls <= 1
====
